---- MODULE Spec2Model ----
(***************************************************************************)
(* Model of the link-mapping core of WikiScraper:                          *)
(*   - GraphManager (src/src/graph/graph_manager.py), the graph store,     *)
(*   - WikiGraph / WikiNode / WikiEdge (src/src/models/wiki_graph.py),     *)
(*   - WikiService.map_page_graph and _recursive_graph_mapping             *)
(*     (src/src/service/wiki_service.py), the depth-bounded crawl.         *)
(*                                                                         *)
(* A client either drives the GraphManager directly (create_graph and     *)
(* then any operations) or calls map_page_graph, whose recursion is       *)
(* unfolded into an explicit stack of frames, one step per code position. *)
(***************************************************************************)
EXTENDS Integers, Sequences, FiniteSets, TLC

VARIABLES
    pc,        \* "idle", "store" (client drives GraphManager), "crawl", "done"
    graph,     \* the WikiGraph under construction
    heap,      \* number of WikiGraph / WikiNode objects constructed so far
    call,      \* the last GraphManager call made (operation and arguments)
    pre,       \* the graph as it was when that call was made
    exc,       \* the exception that call raised, "none" if it returned
    ret,       \* its return value: <<>> for None, <<v>> for a value v
    nops,      \* number of GraphManager operations the client has issued
    added,     \* history: the valid titles ever passed to add_node
    req,       \* arguments of the map_page_graph call
    visited,   \* exploration_visited
    stack,     \* active frames of _recursive_graph_mapping, innermost last
    linkSrc,   \* what the Link Source answered, per title asked
    calls,     \* history: the titles passed to scraper.get_page_links, in order
    result,    \* outcome of map_page_graph
    earlier,   \* what the earlier map_page_graph call of this service left
    tpc,       \* map_page_links: "idle", "crawl" or "done"
    tree,      \* the PageNode objects under root_node, by their path of titles
    tvisited,  \* visited of map_page_links
    tstack,    \* active frames of _recursive_link_mapping, innermost last
    tcalls,    \* history: the get_page_links calls of map_page_links
    tresult    \* outcome of map_page_links

vars == <<pc, graph, heap, call, pre, exc, ret, nops, added, req, visited, stack,
          linkSrc, calls, result, earlier, tpc, tree, tvisited, tstack, tcalls,
          tresult>>

(***************************************************************************)
(* Bounds                                                                  *)
(***************************************************************************)
MaxDepth == 3      \* max_depth arguments range over 0..MaxDepth
MaxLinks == 4      \* links the Link Source hands out during one crawl, in all
MaxOps == 2        \* GraphManager operations a client issues after create_graph

(***************************************************************************)
(* Python values that reach a title parameter: a str, or something else.   *)
(* s is the text of str(v), as an f-string formats it.                     *)
(***************************************************************************)
PyStr(s) == [t |-> "str", s |-> s]
PyInt7 == [t |-> "int", s |-> "7"]
PyNone == [t |-> "NoneType", s |-> "None"]

\* bool(v)
Truthy(v) == CASE v.t = "str" -> v.s # ""
               [] v.t = "int" -> v.s # "0"
               [] OTHER -> FALSE

\* isinstance(v, str)
IsStr(v) == v.t = "str"

\* the guard "not title or not isinstance(title, str)"
InvalidTitle(v) == ~Truthy(v) \/ ~IsStr(v)

\* a dict, as a function; metadata arguments are <<>> (None) or <<dict>>
EmptyDict == [k \in {} |-> ""]
SomeDict == [k \in {"k"} |-> "v"]

\* "metadata or {}"
MetadataOrEmpty(m) == IF m = <<>> \/ m[1] = EmptyDict THEN EmptyDict ELSE m[1]

(***************************************************************************)
(* WikiGraph, WikiNode, WikiEdge                                           *)
(***************************************************************************)
WikiGraph ==
    [nodes |-> [k \in {} |-> 0], edges |-> <<>>, root_title |-> PyNone,
     total_nodes |-> 0, error_count |-> 0, max_depth_explored |-> 0]

\* oid is the identity of the object: the heap counter when it was constructed
WikiNode(title, is_error, metadata, oid) ==
    [title |-> title, is_error |-> is_error, metadata |-> metadata, oid |-> oid]

WikiEdge(source, target, rel_type, metadata) ==
    [source |-> source, target |-> target, rel_type |-> rel_type,
     metadata |-> metadata]

(***************************************************************************)
(* GraphManager. Every operation takes the graph g and the heap h and      *)
(* yields the graph and heap it leaves behind, the exception it raised     *)
(* ("none" when it returned) and its return value.                         *)
(***************************************************************************)
Returns(g, h, v) == [graph |-> g, heap |-> h, exc |-> "none", ret |-> v]
Raises(g, h, e) == [graph |-> g, heap |-> h, exc |-> e, ret |-> <<>>]

add_node_overwrite(g, h, title, is_error, metadata) ==
    IF InvalidTitle(title)
    THEN Raises(g, h, "InvalidTitleError")
    ELSE LET node == WikiNode(title.s, is_error, MetadataOrEmpty(metadata),
                              h.nodes + 1)
             g1 == [g EXCEPT
                      !.nodes = (title.s :> node) @@ @,
                      !.total_nodes = @ + 1,
                      !.error_count = IF is_error THEN @ + 1 ELSE @]
         IN  Returns(g1, [h EXCEPT !.nodes = @ + 1], <<node>>)

add_node_upgrade(g, h, title, is_error, metadata) ==
    IF InvalidTitle(title)
    THEN Raises(g, h, "InvalidTitleError")
    ELSE IF title.s \in DOMAIN g.nodes
    THEN LET old == g.nodes[title.s]
             node == [old EXCEPT !.is_error = @ \/ is_error]
             g1 == [g EXCEPT
                      !.nodes[title.s] = node,
                      !.error_count = IF is_error /\ ~old.is_error
                                      THEN @ + 1 ELSE @]
         IN  Returns(g1, h, <<node>>)
    ELSE LET node == WikiNode(title.s, is_error, MetadataOrEmpty(metadata),
                              h.nodes + 1)
             g1 == [g EXCEPT
                      !.nodes = (title.s :> node) @@ @,
                      !.total_nodes = @ + 1,
                      !.error_count = IF is_error THEN @ + 1 ELSE @]
         IN  Returns(g1, [h EXCEPT !.nodes = @ + 1], <<node>>)

add_node(g, h, title, is_error, metadata) ==
    IF InvalidTitle(title)
    THEN Raises(g, h, "InvalidTitleError")
    ELSE IF title.s \in DOMAIN g.nodes
    THEN Returns(g, h, <<g.nodes[title.s]>>)
    ELSE LET node == WikiNode(title.s, is_error, MetadataOrEmpty(metadata),
                              h.nodes + 1)
             g1 == [g EXCEPT
                      !.nodes = (title.s :> node) @@ @,
                      !.total_nodes = @ + 1,
                      !.error_count = IF is_error THEN @ + 1 ELSE @]
         IN  Returns(g1, [h EXCEPT !.nodes = @ + 1], <<node>>)

create_graph_shared(h, root_title) ==
    IF InvalidTitle(root_title)
    THEN Raises(WikiGraph, h, "InvalidTitleError")
    ELSE LET g0 == [graph EXCEPT !.root_title = root_title]
             r == add_node(g0, [h EXCEPT !.graphs = @ + 1], root_title,
                           FALSE, <<>>)
         IN  Returns(r.graph, r.heap, <<r.graph>>)

create_graph_rootless(h, root_title) ==
    IF InvalidTitle(root_title)
    THEN Raises(WikiGraph, h, "InvalidTitleError")
    ELSE LET g0 == [WikiGraph EXCEPT !.root_title = root_title]
         IN  Returns(g0, [h EXCEPT !.graphs = @ + 1], <<g0>>)

create_graph_wraps(h, root_title) ==
    LET g0 == [WikiGraph EXCEPT !.root_title = root_title]
        r == add_node(g0, [h EXCEPT !.graphs = @ + 1], root_title, FALSE, <<>>)
    IN  IF InvalidTitle(root_title) THEN Raises(WikiGraph, h, "GraphCreationError")
        ELSE Returns(r.graph, r.heap, <<r.graph>>)

\* the title is validated before the try block, so that the clause
\* "except Exception" never sees InvalidTitleError
create_graph(h, root_title) ==
    IF InvalidTitle(root_title)
    THEN Raises(WikiGraph, h, "InvalidTitleError")
    ELSE LET g0 == [WikiGraph EXCEPT !.root_title = root_title]
             r == add_node(g0, [h EXCEPT !.graphs = @ + 1], root_title,
                           FALSE, <<>>)
         IN  IF r.exc = "none"
             THEN Returns(r.graph, r.heap, <<r.graph>>)
             ELSE Raises(r.graph, r.heap, "GraphCreationError")

add_relationship_prepends(g, h, source_title, target_title, rel_type, metadata) ==
    IF InvalidTitle(source_title) THEN Raises(g, h, "InvalidTitleError")
    ELSE IF InvalidTitle(target_title) THEN Raises(g, h, "InvalidTitleError")
    ELSE IF source_title.s \notin DOMAIN g.nodes THEN Raises(g, h, "NodeError")
    ELSE IF target_title.s \notin DOMAIN g.nodes THEN Raises(g, h, "NodeError")
    ELSE LET edge == WikiEdge(source_title.s, target_title.s, rel_type,
                              MetadataOrEmpty(metadata))
         IN  Returns([g EXCEPT !.edges = <<edge>> \o @], h, <<edge>>)

add_relationship_dedup(g, h, source_title, target_title, rel_type, metadata) ==
    IF InvalidTitle(source_title) THEN Raises(g, h, "InvalidTitleError")
    ELSE IF InvalidTitle(target_title) THEN Raises(g, h, "InvalidTitleError")
    ELSE IF source_title.s \notin DOMAIN g.nodes THEN Raises(g, h, "NodeError")
    ELSE IF target_title.s \notin DOMAIN g.nodes THEN Raises(g, h, "NodeError")
    ELSE LET edge == WikiEdge(source_title.s, target_title.s, rel_type,
                              MetadataOrEmpty(metadata))
         IN  IF \E i \in 1..Len(g.edges) : g.edges[i] = edge
             THEN Returns(g, h, <<edge>>)
             ELSE Returns([g EXCEPT !.edges = Append(@, edge)], h, <<edge>>)

add_relationship_unchecked(g, h, source_title, target_title, rel_type, metadata) ==
    IF InvalidTitle(source_title) THEN Raises(g, h, "InvalidTitleError")
    ELSE IF InvalidTitle(target_title) THEN Raises(g, h, "InvalidTitleError")
    ELSE IF source_title.s \notin DOMAIN g.nodes THEN Raises(g, h, "NodeError")
    ELSE LET edge == WikiEdge(source_title.s, target_title.s, rel_type,
                              MetadataOrEmpty(metadata))
         IN  Returns([g EXCEPT !.edges = Append(@, edge)], h, <<edge>>)

add_relationship_wraps(g, h, source_title, target_title, rel_type, metadata) ==
    IF InvalidTitle(source_title) THEN Raises(g, h, "InvalidTitleError")
    ELSE IF InvalidTitle(target_title) THEN Raises(g, h, "InvalidTitleError")
    ELSE IF source_title.s \notin DOMAIN g.nodes
    THEN Raises(g, h, "RelationshipError")
    ELSE IF target_title.s \notin DOMAIN g.nodes
    THEN Raises(g, h, "RelationshipError")
    ELSE LET edge == WikiEdge(source_title.s, target_title.s, rel_type,
                              MetadataOrEmpty(metadata))
         IN  Returns([g EXCEPT !.edges = Append(@, edge)], h, <<edge>>)

add_relationship(g, h, source_title, target_title, rel_type, metadata) ==
    IF InvalidTitle(source_title) THEN Raises(g, h, "InvalidTitleError")
    ELSE IF InvalidTitle(target_title) THEN Raises(g, h, "InvalidTitleError")
    ELSE IF source_title.s \notin DOMAIN g.nodes THEN Raises(g, h, "NodeError")
    ELSE IF target_title.s \notin DOMAIN g.nodes THEN Raises(g, h, "NodeError")
    ELSE LET edge == WikiEdge(source_title.s, target_title.s, rel_type,
                              MetadataOrEmpty(metadata))
         IN  Returns([g EXCEPT !.edges = Append(@, edge)], h, <<edge>>)

add_link_atomic(g, h, source_title, target_title) ==
    LET r1 == add_node(g, h, target_title, FALSE, <<>>)
    IN  IF r1.exc # "none" THEN Raises(g, h, r1.exc)
        ELSE LET r2 == add_relationship(r1.graph, r1.heap, source_title,
                                        target_title, "LINKS_TO", <<>>)
             IN  IF r2.exc # "none" THEN Raises(g, h, r2.exc)
                 ELSE Returns(r2.graph, r2.heap, <<>>)

add_link_wraps(g, h, source_title, target_title) ==
    LET r1 == add_node(g, h, target_title, FALSE, <<>>)
    IN  IF r1.exc # "none" THEN Raises(r1.graph, r1.heap, "RelationshipError")
        ELSE LET r2 == add_relationship(r1.graph, r1.heap, source_title,
                                        target_title, "LINKS_TO", <<>>)
             IN  IF r2.exc # "none"
                 THEN Raises(r2.graph, r2.heap, "RelationshipError")
                 ELSE Returns(r2.graph, r2.heap, <<>>)

add_link_reversed(g, h, source_title, target_title) ==
    LET r1 == add_node(g, h, target_title, FALSE, <<>>)
    IN  IF r1.exc # "none" THEN Raises(r1.graph, r1.heap, r1.exc)
        ELSE LET r2 == add_relationship(r1.graph, r1.heap, target_title,
                                        source_title, "LINKS_TO", <<>>)
             IN  IF r2.exc # "none" THEN Raises(r2.graph, r2.heap, r2.exc)
                 ELSE Returns(r2.graph, r2.heap, <<>>)

add_link_new_only(g, h, source_title, target_title) ==
    IF ~InvalidTitle(target_title) /\ target_title.s \in DOMAIN g.nodes
    THEN Returns(g, h, <<>>)
    ELSE LET r1 == add_node(g, h, target_title, FALSE, <<>>)
         IN  IF r1.exc # "none" THEN Raises(r1.graph, r1.heap, r1.exc)
             ELSE LET r2 == add_relationship(r1.graph, r1.heap, source_title,
                                             target_title, "LINKS_TO", <<>>)
                  IN  IF r2.exc # "none"
                      THEN Raises(r2.graph, r2.heap, r2.exc)
                      ELSE Returns(r2.graph, r2.heap, <<>>)

\* the except clauses re-raise InvalidTitleError, NodeError and
\* RelationshipError unchanged; whatever add_node did before the failure stays
add_link(g, h, source_title, target_title) ==
    LET r1 == add_node(g, h, target_title, FALSE, <<>>)
    IN  IF r1.exc # "none" THEN Raises(r1.graph, r1.heap, r1.exc)
        ELSE LET r2 == add_relationship(r1.graph, r1.heap, source_title,
                                        target_title, "LINKS_TO", <<>>)
             IN  IF r2.exc # "none" THEN Raises(r2.graph, r2.heap, r2.exc)
                 ELSE Returns(r2.graph, r2.heap, <<>>)

\* f"[ERROR] {source_title}"
ErrorTitle(source_title) == PyStr("[ERROR] " \o source_title.s)

add_error_node_links_to(g, h, source_title) ==
    LET error_title == ErrorTitle(source_title)
        r1 == add_node(g, h, error_title, TRUE, <<>>)
    IN  IF r1.exc # "none" THEN Raises(r1.graph, r1.heap, r1.exc)
        ELSE LET r2 == add_relationship(r1.graph, r1.heap, source_title,
                                        error_title, "LINKS_TO", <<>>)
             IN  IF r2.exc # "none" THEN Raises(r2.graph, r2.heap, r2.exc)
                 ELSE Returns(r2.graph, r2.heap, <<>>)

add_error_node(g, h, source_title) ==
    LET error_title == ErrorTitle(source_title)
        r1 == add_node(g, h, error_title, TRUE, <<>>)
    IN  IF r1.exc # "none" THEN Raises(r1.graph, r1.heap, r1.exc)
        ELSE LET r2 == add_relationship(r1.graph, r1.heap, source_title,
                                        error_title, "ERROR", <<>>)
             IN  IF r2.exc # "none" THEN Raises(r2.graph, r2.heap, r2.exc)
                 ELSE Returns(r2.graph, r2.heap, <<>>)

Max(a, b) == IF a >= b THEN a ELSE b

update_metrics_overwrites(g, h, depth) ==
    Returns([g EXCEPT !.max_depth_explored = depth], h, <<>>)

update_metrics_skips(g, h, depth) ==
    Returns(g, h, <<>>)

update_metrics(g, h, depth) ==
    Returns([g EXCEPT !.max_depth_explored = Max(@, depth)], h, <<>>)

\* the valid titles a sequence of add_node calls hands to add_node
Passed(title) == IF InvalidTitle(title) THEN {} ELSE {title.s}

(***************************************************************************)
(* Inputs                                                                  *)
(***************************************************************************)
\* titles a client passes to the GraphManager: two valid ones (the second
\* is also the error title of the first), the empty string and a non-string
StoreTitles == {PyStr("X"), PyStr("[ERROR] X"), PyStr(""), PyInt7}
\* targets of add_link: those, and a third valid title
LinkTargets == StoreTitles \cup {PyStr("Y")}
Metadatas == {<<>>, <<SomeDict>>}
RelTypes == {"LINKS_TO", "ERROR"}
Depths == 0..MaxDepth
\* max_depth arguments: the depths, and a negative one
MaxDepthArgs == Depths \cup {-1}

NoCall == [op |-> "none"]
NoResult == [kind |-> "none", error |-> "none", cause |-> "none"]
NoReq == [root_title |-> PyNone, max_depth |-> 0, include_errors |-> FALSE]
NoTreeResult == [kind |-> "none", error |-> "none", value |-> <<>>]

Init ==
    /\ pc = "idle"
    /\ graph = WikiGraph
    /\ heap = [graphs |-> 0, nodes |-> 0]
    /\ call = NoCall
    /\ pre = WikiGraph
    /\ exc = "none"
    /\ ret = <<>>
    /\ nops = 0
    /\ added = {}
    /\ req = NoReq
    /\ visited = {}
    /\ stack = <<>>
    /\ linkSrc = [k \in {} |-> 0]
    /\ calls = <<>>
    /\ result = NoResult
    /\ earlier = <<>>
    /\ tpc = "idle"
    /\ tree = [p \in {} |-> 0]
    /\ tvisited = {}
    /\ tstack = <<>>
    /\ tcalls = <<>>
    /\ tresult = NoTreeResult

treeVars == <<tpc, tree, tvisited, tstack, tcalls, tresult>>
crawlVars == <<req, visited, stack, linkSrc, calls, result, earlier, treeVars>>

\* the effect of a GraphManager call on the store variables
Effect(c, g0, r, titles) ==
    /\ call' = c
    /\ pre' = g0
    /\ graph' = r.graph
    /\ heap' = r.heap
    /\ exc' = r.exc
    /\ ret' = r.ret
    /\ added' = added \cup titles

(***************************************************************************)
(* A client driving the GraphManager                                       *)
(***************************************************************************)
CreateGraph(root_title) ==
    /\ pc = "idle"
    /\ LET r == create_graph(heap, root_title)
       IN  /\ Effect([op |-> "create_graph", root_title |-> root_title],
                     graph,
                     IF r.exc = "none" THEN r ELSE [r EXCEPT !.graph = graph],
                     Passed(root_title))
           /\ pc' = IF r.exc = "none" THEN "store" ELSE "idle"
    /\ UNCHANGED <<nops, crawlVars>>

AddNode(title, is_error, metadata) ==
    /\ pc = "store" /\ nops < MaxOps
    /\ Effect([op |-> "add_node", title |-> title, is_error |-> is_error,
               metadata |-> metadata],
              graph,
              add_node(graph, heap, title, is_error, metadata),
              Passed(title))
    /\ nops' = nops + 1
    /\ UNCHANGED <<pc, crawlVars>>

AddRelationship(source_title, target_title, rel_type, metadata) ==
    /\ pc = "store" /\ nops < MaxOps
    /\ Effect([op |-> "add_relationship", source_title |-> source_title,
               target_title |-> target_title, rel_type |-> rel_type,
               metadata |-> metadata],
              graph,
              add_relationship(graph, heap, source_title, target_title,
                               rel_type, metadata),
              {})
    /\ nops' = nops + 1
    /\ UNCHANGED <<pc, crawlVars>>

AddLink(source_title, target_title) ==
    /\ pc = "store" /\ nops < MaxOps
    /\ Effect([op |-> "add_link", source_title |-> source_title,
               target_title |-> target_title],
              graph,
              add_link(graph, heap, source_title, target_title),
              Passed(target_title))
    /\ nops' = nops + 1
    /\ UNCHANGED <<pc, crawlVars>>

AddErrorNode(source_title) ==
    /\ pc = "store" /\ nops < MaxOps
    /\ Effect([op |-> "add_error_node", source_title |-> source_title],
              graph,
              add_error_node(graph, heap, source_title),
              Passed(ErrorTitle(source_title)))
    /\ nops' = nops + 1
    /\ UNCHANGED <<pc, crawlVars>>

UpdateMetrics(depth) ==
    /\ pc = "store" /\ nops < MaxOps
    /\ Effect([op |-> "update_metrics", depth |-> depth],
              graph, update_metrics(graph, heap, depth), {})
    /\ nops' = nops + 1
    /\ UNCHANGED <<pc, crawlVars>>

StoreNext ==
    \/ \E t \in StoreTitles : CreateGraph(t)
    \/ \E t \in StoreTitles, e \in BOOLEAN, m \in Metadatas : AddNode(t, e, m)
    \/ \E s, t \in StoreTitles, y \in RelTypes, m \in Metadatas :
           AddRelationship(s, t, y, m)
    \/ \E s \in StoreTitles, t \in LinkTargets : AddLink(s, t)
    \/ \E s \in StoreTitles : AddErrorNode(s)
    \/ \E d \in Depths : UpdateMetrics(d)

(***************************************************************************)
(* The Link Source (scraper.get_page_links): for each title it is asked     *)
(* about it either returns a list of titles or raises WikiScraperError.     *)
(* Its answer for a title is chosen when the title is first asked about     *)
(* and stays the same afterwards.                                           *)
(***************************************************************************)
\* Titles: the root X, pages Y and Z, a page whose title is the error title
\* of Y, and the empty title. The crawl never looks past an empty title, so
\* a list holds one at its end or not at all.
PageTitles == {"X", "Y", "Z", "[ERROR] Y"}
LinkTitles == PageTitles \cup {""}

PageListsUpTo(n) == UNION {[1..k -> PageTitles] : k \in 0..n}
ListsUpTo(n) ==
    PageListsUpTo(n) \cup {Append(l, "") : l \in PageListsUpTo(n - 1)}

RECURSIVE LinksHandedOut(_)
LinksHandedOut(titles) ==
    IF titles = {} THEN 0
    ELSE LET t == CHOOSE x \in titles : TRUE
         IN  Len(linkSrc[t].links) + LinksHandedOut(titles \ {t})

\* the answers the Link Source can give: it raises WikiScraperError, or it
\* returns a list; all the lists of one crawl hold at most MaxLinks links
Answers ==
    LET left == MaxLinks - LinksHandedOut(DOMAIN linkSrc)
    IN  {[ok |-> FALSE, links |-> <<>>]}
            \cup {[ok |-> TRUE, links |-> l] : l \in ListsUpTo(left)}

get_page_links_hangs(page_title) ==
    {}

get_page_links(page_title) ==
    IF page_title \in DOMAIN linkSrc THEN {linkSrc[page_title]} ELSE Answers

(***************************************************************************)
(* WikiService.map_page_graph                                              *)
(***************************************************************************)
CrawlRoots == {PyStr("X"), PyStr(""), PyInt7}

Frame(title, depth) ==
    [current_title |-> title, current_depth |-> depth, at |-> "enter",
     links |-> <<>>, i |-> 0]

Top == stack[Len(stack)]
ReplaceTop(f) == [stack EXCEPT ![Len(stack)] = f]

Returned == [kind |-> "returned", error |-> "none", cause |-> "none"]
Raised(error, cause) == [kind |-> "raised", error |-> error, cause |-> cause]

Caller(stk) == SubSeq(stk, 1, Len(stk) - 1)

\* a frame whose "for link_title in links" is exhausted returns to its caller,
\* which goes on with its own loop
RECURSIVE Unwound(_)
Unwound(stk) ==
    IF stk = <<>> THEN <<>>
    ELSE LET f == stk[Len(stk)]
         IN  IF f.at = "loop" /\ f.i > Len(f.links)
             THEN Unwound(Caller(stk))
             ELSE stk

\* the recursion goes on with the frames stk; when the root frame has
\* returned, map_page_graph returns the graph
Continue(stk) ==
    /\ stack' = Unwound(stk)
    /\ pc' = IF Unwound(stk) = <<>> THEN "done" ELSE "crawl"
    /\ result' = IF Unwound(stk) = <<>> THEN Returned ELSE result

Abort_unwrapped(cause) ==
    /\ stack' = <<>>
    /\ pc' = "done"
    /\ result' = Raised(cause, cause)

\* an exception that no frame catches unwinds the whole recursion and
\* map_page_graph wraps it in PageMappingServiceError
Abort(cause) ==
    /\ stack' = <<>>
    /\ pc' = "done"
    /\ result' = Raised("PageMappingServiceError", cause)

\* the two early returns of _recursive_graph_mapping
SkipExpansion(current_title, current_depth, max_depth, exploration_visited) ==
    current_depth > max_depth \/ current_title \in exploration_visited

MarkVisited_root_only(exploration_visited, current_title) ==
    IF exploration_visited = {} THEN {current_title} ELSE exploration_visited

MarkVisited_forgets(exploration_visited, current_title) ==
    exploration_visited

\* exploration_visited.add(current_title)
MarkVisited(exploration_visited, current_title) ==
    exploration_visited \cup {current_title}

ShouldRecurse_any_depth(link_title, current_depth, max_depth, exploration_visited) ==
    link_title \notin exploration_visited

\* "if link_title not in exploration_visited and current_depth < max_depth"
ShouldRecurse(link_title, current_depth, max_depth, exploration_visited) ==
    link_title \notin exploration_visited /\ current_depth < max_depth

on_fetch_failure_reraises(g, h, current_title, include_errors) ==
    Raises(g, h, "WikiScraperError")

on_fetch_failure_always(g, h, current_title, include_errors) ==
    add_error_node(g, h, PyStr(current_title))

\* the clause "except WikiScraperError": an error node when include_errors
on_fetch_failure(g, h, current_title, include_errors) ==
    IF include_errors THEN add_error_node(g, h, PyStr(current_title))
                      ELSE Returns(g, h, <<>>)

DepthTooSmall_negative(max_depth) ==
    max_depth < 0

\* "if max_depth < 1"
DepthTooSmall(max_depth) ==
    max_depth < 1

\* map_page_graph up to its call of _recursive_graph_mapping
map_page_graph(root_title, max_depth, include_errors) ==
    /\ req' = [root_title |-> root_title, max_depth |-> max_depth,
               include_errors |-> include_errors]
    /\ IF DepthTooSmall(max_depth)
       THEN /\ pc' = "done"
            /\ result' = Raised("PageMappingServiceError", "none")
            /\ UNCHANGED <<graph, heap, call, pre, exc, ret, added, stack,
                           visited>>
       ELSE LET r == create_graph(heap, root_title)
            IN  IF r.exc # "none"
                THEN /\ Effect([op |-> "create_graph",
                                root_title |-> root_title],
                               graph, [r EXCEPT !.graph = graph],
                               Passed(root_title))
                     /\ Abort(r.exc)
                     /\ UNCHANGED visited
                ELSE /\ Effect([op |-> "create_graph",
                                root_title |-> root_title],
                               graph, r, Passed(root_title))
                     /\ visited' = {}
                     /\ stack' = <<Frame(root_title.s, 1)>>
                     /\ pc' = "crawl"
                     /\ UNCHANGED result
    /\ UNCHANGED <<nops, linkSrc, calls, treeVars>>

\* map_page_graph called by a client that has not driven the GraphManager
\* itself
MapPageGraph(root_title, max_depth, include_errors) ==
    /\ pc = "idle" /\ call = NoCall
    /\ map_page_graph(root_title, max_depth, include_errors)
    /\ UNCHANGED earlier

\* once the call has returned a graph, the client calls map_page_graph of
\* the same WikiService again, with the same arguments; the Link Source
\* answers as before. The first call's graph stays with the client.
MapPageGraphAgain ==
    /\ pc = "done" /\ result.kind = "returned" /\ earlier = <<>>
    /\ earlier' = <<[result |-> result, graph |-> graph, id |-> heap.graphs,
                     visited |-> visited, ncalls |-> Len(calls)]>>
    /\ map_page_graph(req.root_title, req.max_depth, req.include_errors)

\* _recursive_graph_mapping from its entry to the answer of the Link Source:
\* the two early returns, the visited mark, update_metrics, get_page_links,
\* and the except clause when the Link Source raised; the frame returns at
\* once when it got no links
Expand ==
    /\ pc = "crawl" /\ Top.at = "enter"
    /\ LET f == Top
           current_title == f.current_title
       IN  IF SkipExpansion(current_title, f.current_depth, req.max_depth,
                            visited)
           THEN /\ Continue(Caller(stack))
                /\ UNCHANGED <<graph, heap, call, pre, exc, ret, added,
                               visited, linkSrc, calls>>
           ELSE \E answer \in get_page_links(current_title) :
                LET m == update_metrics(graph, heap, f.current_depth)
                IN  /\ visited' = MarkVisited(visited, current_title)
                    /\ calls' = Append(calls, [page_title |-> current_title,
                                               depth |-> f.current_depth])
                    /\ linkSrc' = (current_title :> answer) @@ linkSrc
                    /\ IF answer.ok
                       THEN /\ Effect([op |-> "update_metrics",
                                       depth |-> f.current_depth],
                                      graph, m, {})
                            /\ Continue(ReplaceTop([f EXCEPT
                                            !.at = "loop",
                                            !.links = answer.links,
                                            !.i = 1]))
                       ELSE LET r == on_fetch_failure(m.graph, m.heap,
                                        current_title, req.include_errors)
                            IN  /\ IF req.include_errors
                                   THEN Effect([op |-> "add_error_node",
                                        source_title |-> PyStr(current_title)],
                                        m.graph, r,
                                        Passed(ErrorTitle(PyStr(current_title))))
                                   ELSE Effect([op |-> "update_metrics",
                                        depth |-> f.current_depth],
                                        graph, r, {})
                                /\ IF r.exc = "none"
                                   THEN Continue(Caller(stack))
                                   ELSE Abort(r.exc)
    /\ UNCHANGED <<nops, req, earlier, treeVars>>

\* one iteration of "for link_title in links": add_link, then the recursive
\* call when the link is unvisited and the depth bound allows it, or else
\* the next iteration, or the return when this was the last link
LoopStep ==
    /\ pc = "crawl" /\ Top.at = "loop"
    /\ LET f == Top
           link_title == f.links[f.i]
           r == add_link(graph, heap, PyStr(f.current_title), PyStr(link_title))
           f1 == [f EXCEPT !.i = @ + 1]
       IN  /\ Effect([op |-> "add_link",
                      source_title |-> PyStr(f.current_title),
                      target_title |-> PyStr(link_title)],
                     graph, r, Passed(PyStr(link_title)))
           /\ IF r.exc # "none"
              THEN Abort(r.exc)
              ELSE Continue(
                        IF ShouldRecurse(link_title, f.current_depth,
                                         req.max_depth, visited)
                        THEN Append(ReplaceTop(f1),
                                    Frame(link_title, f.current_depth + 1))
                        ELSE ReplaceTop(f1))
    /\ UNCHANGED <<nops, req, visited, linkSrc, calls, earlier, treeVars>>

CrawlNext ==
    \/ \E t \in CrawlRoots, d \in MaxDepthArgs, e \in BOOLEAN :
           MapPageGraph(t, d, e)
    \/ Expand
    \/ LoopStep

Next == StoreNext \/ CrawlNext

Spec == Init /\ [][Next]_vars

\* map_page_graph runs on one thread that nothing suspends: while the crawl
\* has a step to take, it takes it
CrawlStep == Expand \/ LoopStep
FairSpec == Spec /\ WF_vars(CrawlStep)

(***************************************************************************)
(* WikiService.map_page_links, the tree variant of the crawl                *)
(***************************************************************************)
graphVars == <<pc, graph, heap, call, pre, exc, ret, nops, added, req, visited,
               stack, calls, result, earlier>>

\* PageNode(title=title); its children are the nodes one title further down
\* its path
PageNode(title) == [title |-> title, is_error |-> FALSE]

\* PageTree(root=root_node), whose root is the node at the one-title path
PageTree == [total_nodes |-> 0, error_count |-> 0, max_depth_reached |-> 0]

IsPrefix(p, q) == Len(p) <= Len(q) /\ SubSeq(q, 1, Len(p)) = p

\* the tree t after "self.children[node.title] = node" in the node at path:
\* a child of that title, and all below it, gives way to the new node
add_child(t, path, node) ==
    LET child == Append(path, node.title)
        kept == {q \in DOMAIN t : ~IsPrefix(child, q)}
    IN  [q \in kept \cup {child} |-> IF q = child THEN node ELSE t[q]]

TFrame(node, depth) ==
    [current_node |-> node, current_depth |-> depth, at |-> "enter",
     links |-> <<>>, i |-> 0]

TTop == tstack[Len(tstack)]
TReplaceTop(f) == [tstack EXCEPT ![Len(tstack)] = f]

\* the recursion goes on with the frames stk; when the root frame has
\* returned, map_page_links returns PageTree(root=root_node)
TreeContinue(stk) ==
    /\ tstack' = Unwound(stk)
    /\ tpc' = IF Unwound(stk) = <<>> THEN "done" ELSE "crawl"
    /\ tresult' = IF Unwound(stk) = <<>>
                  THEN [kind |-> "returned", error |-> "none",
                        value |-> <<PageTree>>]
                  ELSE tresult

TreeSkipExpansion_unbounded(current_title, current_depth, max_depth, visited_titles) ==
    current_title \in visited_titles

\* the two early returns of _recursive_link_mapping
TreeSkipExpansion(current_title, current_depth, max_depth, visited_titles) ==
    current_depth > max_depth \/ current_title \in visited_titles

\* map_page_links up to its call of _recursive_link_mapping
map_page_links(root_title, max_depth, include_errors) ==
    IF DepthTooSmall(max_depth)
    THEN /\ tpc' = "done"
         /\ tresult' = [kind |-> "raised", error |-> "PageMappingServiceError",
                        value |-> <<>>]
         /\ UNCHANGED <<tree, tvisited, tstack, tcalls>>
    ELSE /\ tree' = (<<root_title.s>> :> PageNode(root_title.s))
         /\ tvisited' = {}
         /\ tstack' = <<TFrame(<<root_title.s>>, 1)>>
         /\ tpc' = "crawl"
         /\ UNCHANGED <<tresult, tcalls>>

\* the client that got a graph from map_page_graph calls map_page_links with
\* the same arguments; the Link Source answers as before
MapPageLinks ==
    /\ pc = "done" /\ result.kind = "returned" /\ tpc = "idle"
    /\ map_page_links(req.root_title, req.max_depth, req.include_errors)
    /\ UNCHANGED <<graphVars, linkSrc>>

\* _recursive_link_mapping from its entry to the answer of the Link Source:
\* the early returns, the visited mark, get_page_links, and the except
\* clause, which hangs a PageNode with the error title below the node
TreeExpand ==
    /\ tpc = "crawl" /\ TTop.at = "enter"
    /\ LET f == TTop
           title == tree[f.current_node].title
       IN  IF TreeSkipExpansion(title, f.current_depth, req.max_depth,
                                tvisited)
           THEN /\ TreeContinue(Caller(tstack))
                /\ UNCHANGED <<tree, tvisited, tcalls, linkSrc>>
           ELSE \E answer \in get_page_links(title) :
                /\ tvisited' = tvisited \cup {title}
                /\ tcalls' = Append(tcalls, [page_title |-> title,
                                             depth |-> f.current_depth])
                /\ linkSrc' = (title :> answer) @@ linkSrc
                /\ IF answer.ok
                   THEN /\ TreeContinue(TReplaceTop([f EXCEPT
                                            !.at = "loop",
                                            !.links = answer.links,
                                            !.i = 1]))
                        /\ UNCHANGED tree
                   ELSE /\ tree' = IF req.include_errors
                                   THEN add_child(tree, f.current_node,
                                            PageNode("[ERROR] " \o title))
                                   ELSE tree
                        /\ TreeContinue(Caller(tstack))
    /\ UNCHANGED graphVars

\* one iteration of "for link_title in links": a visited title is passed
\* over, any other gets a child node and the recursive call
TreeLoopStep ==
    /\ tpc = "crawl" /\ TTop.at = "loop"
    /\ LET f == TTop
           link_title == f.links[f.i]
           f1 == [f EXCEPT !.i = @ + 1]
       IN  IF link_title \in tvisited
           THEN /\ TreeContinue(TReplaceTop(f1))
                /\ UNCHANGED tree
           ELSE /\ tree' = add_child(tree, f.current_node,
                                     PageNode(link_title))
                /\ TreeContinue(Append(TReplaceTop(f1),
                                       TFrame(Append(f.current_node, link_title),
                                              f.current_depth + 1)))
    /\ UNCHANGED <<graphVars, tvisited, tcalls, linkSrc>>

TreeNext == MapPageLinks \/ TreeExpand \/ TreeLoopStep

\* a client that calls map_page_graph and then map_page_links
TreeSpec == Init /\ [][CrawlNext \/ TreeNext]_vars

\* a client that calls map_page_graph twice
RepeatNext == CrawlNext \/ MapPageGraphAgain
RepeatSpec == Init /\ [][RepeatNext]_vars

(***************************************************************************)
(* Properties                                                              *)
(***************************************************************************)
Crawling == pc = "crawl"
GraphReturned == pc = "done" /\ result.kind = "returned"
Edges == {graph.edges[i] : i \in 1..Len(graph.edges)}
HasEdge(s, t, y) ==
    \E e \in Edges : e.source = s /\ e.target = t /\ e.rel_type = y
LinkSources(t) == {e.source : e \in {x \in Edges : x.target = t}}
Fetched == {calls[i].page_title : i \in 1..Len(calls)}
FetchedOk == {t \in Fetched : linkSrc[t].ok}
FetchFailed == {t \in Fetched : ~linkSrc[t].ok}
LinksOf(t) == {linkSrc[t].links[i] : i \in 1..Len(linkSrc[t].links)}

\* C1: during one map_page_graph call get_page_links is called at most once
\* for any title, however many expanded pages link to it.
C1_FetchedAtMostOnce ==
    \A i, j \in 1..Len(calls) :
        calls[i].page_title = calls[j].page_title => i = j

\* a returned graph in which two different expanded pages link to a third
\* page that was expanded, in a crawl where a fetch failed too
C1_Witness ==
    /\ GraphReturned
    /\ \E t \in FetchedOk : Cardinality(LinkSources(t) \cap FetchedOk) >= 2
                              /\ t # req.root_title.s
    /\ FetchFailed # {}

\* C2: map_page_graph terminates, returning a graph or raising, for every
\* link relation (cycles and self-links included) and every max_depth >= 1,
\* provided each Link Source call returns or raises.
C2_Terminates == Crawling ~> (pc = "done")

\* a crawl over a cycle X -> Y -> X with a self-link Y -> Y has returned
C2_Witness ==
    /\ GraphReturned
    /\ \E x, y \in FetchedOk :
          /\ x # y
          /\ y \in LinksOf(x) /\ x \in LinksOf(y) /\ y \in LinksOf(y)

\* C3: in the returned graph every page whose links were fetched has a
\* LINKS_TO edge to every title of the list it got, also to titles that were
\* visited already when the edge was recorded.
C3_EveryLinkRecorded ==
    GraphReturned =>
        \A p \in FetchedOk : \A l \in LinksOf(p) : HasEdge(p, l, "LINKS_TO")

\* a returned graph with a back edge to the root and two parents of one page
C3_Witness ==
    /\ GraphReturned
    /\ \E p \in FetchedOk : p # req.root_title.s
                              /\ req.root_title.s \in LinksOf(p)
    /\ \E t \in DOMAIN graph.nodes : Cardinality(LinkSources(t)) >= 2

\* C4: every active frame of the recursion has 1 <= current_depth <=
\* max_depth, the frames nest one depth apart so that no more than max_depth
\* are active (none for a rejected max_depth), and no page is marked visited
\* or fetched beyond max_depth.
C4_DepthBounded ==
    /\ \A k \in 1..Len(stack) :
          /\ stack[k].current_depth = k
          /\ 1 <= stack[k].current_depth
          /\ stack[k].current_depth <= req.max_depth
    /\ Len(stack) <= Max(req.max_depth, 0)
    /\ \A i \in 1..Len(calls) :
          1 <= calls[i].depth /\ calls[i].depth <= req.max_depth
    /\ visited \subseteq Fetched

\* a page at depth max_depth = 2 has links to unvisited pages, and is not
\* followed
C4_Witness ==
    /\ Crawling /\ req.max_depth = 2 /\ Len(stack) = 2
    /\ Top.at = "loop" /\ Top.i > 1
    /\ Top.links[Top.i - 1] \notin visited

\* C5: total_nodes is the number of keys of graph.nodes and the number of
\* distinct valid titles ever passed to add_node, whatever operations were
\* made, failing ones included.
C5_TotalNodesCountsTitles ==
    /\ graph.total_nodes = Cardinality(DOMAIN graph.nodes)
    /\ graph.total_nodes = Cardinality(added)
    /\ added = DOMAIN graph.nodes

\* add_node was called for a title that had a node, after a failing add_link
\* had left its target behind
C5_Witness ==
    /\ pc = "store" /\ graph.total_nodes = 2 /\ Len(graph.edges) = 0
    /\ call.op = "add_node" /\ exc = "none" /\ graph = pre
    /\ call.title.s # graph.root_title.s

\* C6: add_node with a title that has a node returns that very node and
\* leaves nodes, edges, total_nodes and error_count as they were, whatever
\* is_error and metadata it is given.
C6_AddNodeIdempotent ==
    (/\ call.op = "add_node"
     /\ ~InvalidTitle(call.title)
     /\ call.title.s \in DOMAIN pre.nodes)
    => /\ exc = "none"
       /\ ret = <<pre.nodes[call.title.s]>>
       /\ graph = pre

\* the second of two add_node calls for one title asked for an error node
\* with metadata, the first for a plain one
C6_Witness ==
    /\ call.op = "add_node" /\ nops = 2
    /\ call.is_error /\ call.metadata # <<>>
    /\ call.title.s # graph.root_title.s
    /\ call.title.s \in DOMAIN pre.nodes
    /\ ~pre.nodes[call.title.s].is_error

\* C7: both endpoints of every edge are keys of graph.nodes, in every state
\* GraphManager operations or a crawl reach.
C7_EdgeEndpointsAreNodes ==
    \A e \in Edges : e.source \in DOMAIN graph.nodes
                      /\ e.target \in DOMAIN graph.nodes

\* an edge between two different nodes was added, then the reverse edge
C7_Witness ==
    /\ pc = "store" /\ Len(graph.edges) = 2
    /\ graph.edges[1].source # graph.edges[1].target
    /\ graph.edges[2].source = graph.edges[1].target
    /\ call.op = "add_relationship"

\* C8: add_relationship raises InvalidTitleError for an empty or non-string
\* endpoint, and otherwise NodeError when an endpoint has no node; the graph
\* is unchanged in both cases.
C8_AddRelationshipFailures ==
    call.op = "add_relationship" =>
        LET s == call.source_title
            t == call.target_title
        IN  /\ (InvalidTitle(s) \/ InvalidTitle(t))
                  => (exc = "InvalidTitleError" /\ graph = pre)
            /\ (/\ ~InvalidTitle(s) /\ ~InvalidTitle(t)
                /\ (s.s \notin DOMAIN pre.nodes \/ t.s \notin DOMAIN pre.nodes))
                  => (exc = "NodeError" /\ graph = pre)

\* add_relationship was refused for an absent source, in a graph with an edge
C8_Witness ==
    /\ call.op = "add_relationship" /\ exc = "NodeError"
    /\ call.source_title.s \notin DOMAIN graph.nodes
    /\ call.target_title.s \in DOMAIN graph.nodes
    /\ Len(graph.edges) = 1

\* C9: with include_errors, the returned graph has, for every page whose
\* fetch raised, the node "[ERROR] P" and an edge P -> "[ERROR] P" of type
\* ERROR.
C9_ErrorNodePerFailure ==
    (GraphReturned /\ req.include_errors) =>
        \A p \in FetchFailed :
            /\ ErrorTitle(PyStr(p)).s \in DOMAIN graph.nodes
            /\ HasEdge(p, ErrorTitle(PyStr(p)).s, "ERROR")

\* a graph returned with include_errors from a crawl in which two pages
\* were fetched and a page other than the root failed
C9_Witness ==
    /\ GraphReturned /\ req.include_errors
    /\ \E p \in FetchFailed : p # req.root_title.s
    /\ Cardinality(FetchedOk) >= 2

\* C10: without include_errors the graph of a crawl has no ERROR edge, no
\* error node and error_count 0, and the failed fetch of a page leaves nodes,
\* edges, total_nodes and error_count as they were.
FailedFetchJustHandled ==
    /\ calls # <<>>
    /\ ~linkSrc[calls[Len(calls)].page_title].ok
    /\ call.op = "update_metrics"

FetchIndex(t) == CHOOSE i \in 1..Len(calls) : calls[i].page_title = t

\* the Link Source handed out an empty title
EmptyTitleDelivered == \E p \in FetchedOk : "" \in LinksOf(p)

\* C11: a failing Link Source call never makes map_page_graph fail: with a
\* valid root, max_depth >= 1 and no empty title among the links the call
\* returns a graph whichever pages fail, and in the returned graph every
\* link of a fetched page is recorded, and was itself fetched when its parent
\* lies above max_depth, also the links that follow a failing one.
C11_FetchFailuresTolerated ==
    /\ (/\ pc = "done" /\ req.max_depth >= 1
        /\ ~InvalidTitle(req.root_title) /\ ~EmptyTitleDelivered)
       => GraphReturned
    /\ GraphReturned =>
          \A i \in 1..Len(calls) :
              LET p == calls[i].page_title
              IN  linkSrc[p].ok =>
                    \A l \in LinksOf(p) :
                        /\ HasEdge(p, l, "LINKS_TO")
                        /\ calls[i].depth < req.max_depth => l \in Fetched

\* a returned graph in which a page's list names a failing page and, after
\* it, another page that was fetched later than the failing one
C11_Witness ==
    /\ GraphReturned
    /\ \E p \in FetchedOk :
          LET links == linkSrc[p].links
          IN  \E i, j \in 1..Len(links) :
                /\ i < j
                /\ links[i] \in FetchFailed
                /\ links[j] \in Fetched
                /\ FetchIndex(links[i]) < FetchIndex(links[j])
                /\ HasEdge(p, links[j], "LINKS_TO")

\* C12: map_page_graph with max_depth < 1 raises PageMappingServiceError
\* with no graph and no node constructed, no GraphManager call made and
\* the Link Source not called; nothing is returned.
C12_DepthRejected ==
    (pc = "done" /\ req.max_depth < 1) =>
        /\ result = Raised("PageMappingServiceError", "none")
        /\ heap = [graphs |-> 0, nodes |-> 0]
        /\ graph = WikiGraph
        /\ call = NoCall
        /\ calls = <<>>
        /\ visited = {}

\* map_page_graph was called with max_depth = 0 and a valid root title
C12_Witness ==
    /\ pc = "done" /\ req.max_depth = 0
    /\ ~InvalidTitle(req.root_title)
    /\ result.kind = "raised"

\* C13: a map_page_graph call with max_depth >= 1 that does not return a
\* graph raises PageMappingServiceError; it does so, with InvalidTitleError
\* as the cause, for an invalid root title (raised by create_graph) and for
\* an empty title among the links of a page at any depth (raised by
\* add_link), and then no graph is returned.
C13_FailuresWrapped ==
    (pc = "done" /\ req.max_depth >= 1) =>
        /\ result.kind \in {"returned", "raised"}
        /\ result.kind = "raised" => result.error = "PageMappingServiceError"
        /\ InvalidTitle(req.root_title) =>
              /\ result = Raised("PageMappingServiceError", "InvalidTitleError")
              /\ call.op = "create_graph"
        /\ EmptyTitleDelivered =>
              /\ result = Raised("PageMappingServiceError", "InvalidTitleError")
              /\ call.op = "add_link" /\ call.target_title = PyStr("")
              /\ exc = "InvalidTitleError"

\* a crawl was aborted by an empty title in the list of a page below the
\* root, after edges had been recorded
C13_Witness ==
    /\ pc = "done" /\ result.kind = "raised"
    /\ call.op = "add_link" /\ call.target_title = PyStr("")
    /\ calls[Len(calls)].depth >= 2
    /\ "" \in LinksOf(calls[Len(calls)].page_title)
    /\ Len(graph.edges) >= 2

\* C14: map_page_graph(root, 1, false) with a valid root and a Link Source
\* that returns a list of valid titles calls the Link Source once, for root,
\* and returns a graph whose nodes are root and the titles of the list, none
\* an error node, whose edges are one LINKS_TO edge from root per entry of
\* the list, in the order of the list, and whose max_depth_explored is 1.
C14_DepthOneCrawl ==
    (/\ pc = "done" /\ req.max_depth = 1 /\ ~req.include_errors
     /\ ~InvalidTitle(req.root_title)
     /\ FetchFailed = {} /\ ~EmptyTitleDelivered)
    => LET root == req.root_title.s
           links == linkSrc[root].links
       IN  /\ GraphReturned
           /\ calls = <<[page_title |-> root, depth |-> 1]>>
           /\ DOMAIN graph.nodes = {root} \cup LinksOf(root)
           /\ \A t \in DOMAIN graph.nodes : ~graph.nodes[t].is_error
           /\ graph.edges = [i \in 1..Len(links) |->
                                WikiEdge(root, links[i], "LINKS_TO", EmptyDict)]
           /\ graph.total_nodes = Cardinality({root} \cup LinksOf(root))
           /\ graph.max_depth_explored = 1

\* a graph returned for max_depth = 1 from a root with two different links
C14_Witness ==
    /\ GraphReturned /\ req.max_depth = 1 /\ ~req.include_errors
    /\ FetchFailed = {}
    /\ Len(linkSrc[req.root_title.s].links) = 2
    /\ Cardinality(LinksOf(req.root_title.s) \ {req.root_title.s}) = 2

\* C15: create_graph with a valid root_title returns a new graph with that
\* root_title, the root as its only node (not an error node), no edges,
\* total_nodes 1, error_count 0 and max_depth_explored 0; with an empty or
\* non-string root_title it raises InvalidTitleError and no graph or node
\* is constructed.
C15_CreateGraph ==
    call.op = "create_graph" =>
        LET root == call.root_title
        IN  IF InvalidTitle(root)
            THEN /\ exc = "InvalidTitleError"
                 /\ ret = <<>>
                 /\ heap = [graphs |-> 0, nodes |-> 0]
                 /\ graph = WikiGraph
            ELSE /\ exc = "none"
                 /\ ret = <<graph>>
                 /\ heap = [graphs |-> 1, nodes |-> 1]
                 /\ graph = [nodes |-> (root.s :> WikiNode(root.s, FALSE,
                                                           EmptyDict, 1)),
                             edges |-> <<>>,
                             root_title |-> root,
                             total_nodes |-> 1,
                             error_count |-> 0,
                             max_depth_explored |-> 0]

\* create_graph returned a graph to a client of the GraphManager
C15_Witness ==
    /\ pc = "store" /\ call.op = "create_graph" /\ exc = "none"
    /\ Cardinality(DOMAIN graph.nodes) = 1 /\ graph.root_title = PyStr("X")

\* the positions of list or edge sequence q that hold x
Occurrences(q, x) == {i \in 1..Len(q) : q[i] = x}

\* C16: a successful add_relationship appends one edge at the end of
\* graph.edges, returns it and changes nothing else, also when an equal edge
\* is there already; and in a returned crawl graph a page has as many
\* LINKS_TO edges to a title as its link list names that title.
C16_EdgesNotDeduplicated ==
    /\ (call.op = "add_relationship" /\ exc = "none") =>
          LET edge == WikiEdge(call.source_title.s, call.target_title.s,
                               call.rel_type, MetadataOrEmpty(call.metadata))
          IN  /\ graph = [pre EXCEPT !.edges = Append(@, edge)]
              /\ ret = <<edge>>
    /\ GraphReturned =>
          \A p \in FetchedOk : \A t \in LinkTitles :
              Cardinality(Occurrences(graph.edges,
                                      WikiEdge(p, t, "LINKS_TO", EmptyDict)))
                  = Cardinality(Occurrences(linkSrc[p].links, t))

\* add_relationship was called twice with the same source, target and type
\* and left two equal edges
C16_Witness ==
    /\ call.op = "add_relationship" /\ exc = "none"
    /\ Len(graph.edges) = 2 /\ graph.edges[1] = graph.edges[2]
    /\ Len(pre.edges) = 1

\* C17: after a successful add_error_node(graph, S) the node "[ERROR] S"
\* exists with is_error = true and the last edge of graph.edges is
\* S -> "[ERROR] S" of type ERROR.
C17_ErrorNodeMarked ==
    (call.op = "add_error_node" /\ exc = "none") =>
        LET S == call.source_title.s
            E == ErrorTitle(call.source_title).s
        IN  /\ S \in DOMAIN graph.nodes
            /\ E \in DOMAIN graph.nodes
            /\ graph.nodes[E].is_error
            /\ graph.edges # <<>>
            /\ graph.edges[Len(graph.edges)] = WikiEdge(S, E, "ERROR", EmptyDict)

\* C18: add_link(graph, S, T) with S a node and T a valid title returns with
\* T a node, a new one with is_error = false when T was absent and the old
\* one otherwise, all other nodes as they were, and one more edge at the end,
\* S -> T of type LINKS_TO. It raises InvalidTitleError exactly when S or T
\* is empty or not a string, NodeError when S is absent (and is not T, which
\* add_link creates first), and no other error.
C18_AddLink ==
    call.op = "add_link" =>
        LET S == call.source_title
            T == call.target_title
            valid == ~InvalidTitle(S) /\ ~InvalidTitle(T)
        IN  /\ (valid /\ S.s \in DOMAIN pre.nodes) =>
                  /\ exc = "none"
                  /\ DOMAIN graph.nodes = DOMAIN pre.nodes \cup {T.s}
                  /\ \A k \in DOMAIN pre.nodes : graph.nodes[k] = pre.nodes[k]
                  /\ T.s \notin DOMAIN pre.nodes =>
                        /\ ~graph.nodes[T.s].is_error
                        /\ graph.total_nodes = pre.total_nodes + 1
                  /\ T.s \in DOMAIN pre.nodes =>
                        graph.total_nodes = pre.total_nodes
                  /\ graph.error_count = pre.error_count
                  /\ graph.edges = Append(pre.edges,
                          WikiEdge(S.s, T.s, "LINKS_TO", EmptyDict))
            /\ exc \in {"none", "InvalidTitleError", "NodeError"}
            /\ exc = "InvalidTitleError" <=> ~valid
            /\ exc = "NodeError" => S.s \notin DOMAIN pre.nodes
            /\ (valid /\ S.s \notin DOMAIN pre.nodes /\ S # T) =>
                  exc = "NodeError"

\* add_link was called for a target that was an error node already
C18_Witness ==
    /\ call.op = "add_link" /\ exc = "none"
    /\ call.target_title.s \in DOMAIN pre.nodes
    /\ pre.nodes[call.target_title.s].is_error
    /\ call.source_title # call.target_title
    /\ Len(graph.edges) = Len(pre.edges) + 1

\* C19: in a crawl a page whose fetch raised is fetched once only and is
\* never the source of a LINKS_TO edge, and in the returned graph every
\* fetched page that links to it, also one expanded after it, has its
\* LINKS_TO edge to it.
C19_FailedPageNotExpanded ==
    /\ \A p \in FetchFailed :
          /\ Cardinality({i \in 1..Len(calls) : calls[i].page_title = p}) = 1
          /\ ~\E e \in Edges : e.source = p /\ e.rel_type = "LINKS_TO"
    /\ GraphReturned =>
          \A q \in FetchedOk : \A p \in LinksOf(q) \cap FetchFailed :
              HasEdge(q, p, "LINKS_TO")

\* a returned graph in which a page expanded after a failed page links to it
C19_Witness ==
    /\ GraphReturned
    /\ \E p \in FetchFailed : \E q \in FetchedOk :
          /\ p \in LinksOf(q)
          /\ FetchIndex(p) < FetchIndex(q)
          /\ calls[FetchIndex(q)].depth < req.max_depth
          /\ HasEdge(q, p, "LINKS_TO")

\* C20: a page for which the Link Source returns an empty list is marked
\* visited and max_depth_explored is at least its depth, its expansion leaves
\* nodes, edges, total_nodes and error_count as they were, and it is never
\* the source of an edge.
EmptyFetchJustHandled ==
    /\ calls # <<>>
    /\ linkSrc[calls[Len(calls)].page_title].ok
    /\ linkSrc[calls[Len(calls)].page_title].links = <<>>
    /\ call.op = "update_metrics"

C20_EmptyPageExpanded ==
    /\ EmptyFetchJustHandled =>
          LET last == calls[Len(calls)]
          IN  /\ last.page_title \in visited
              /\ graph.max_depth_explored
                     = Max(pre.max_depth_explored, last.depth)
              /\ graph.nodes = pre.nodes
              /\ graph.edges = pre.edges
              /\ graph.total_nodes = pre.total_nodes
              /\ graph.error_count = pre.error_count
    /\ \A p \in FetchedOk : linkSrc[p].links = <<>> =>
          /\ p \in visited
          /\ graph.max_depth_explored >= calls[FetchIndex(p)].depth
          /\ ~\E e \in Edges : e.source = p

\* a page below the root, deeper than any page before it, got an empty list
C20_Witness ==
    /\ EmptyFetchJustHandled
    /\ calls[Len(calls)].depth >= 2
    /\ calls[Len(calls)].depth > pre.max_depth_explored
    /\ Len(graph.edges) >= 1

\* the depths at which pages were expanded
FetchDepths == {calls[i].depth : i \in 1..Len(calls)}

\* C22: update_metrics sets max_depth_explored to the maximum of its old
\* value and depth and changes nothing else; no operation decreases the
\* counter; and in a returned crawl graph it is the greatest depth at which
\* a page was expanded, between 1 and max_depth.
C22_MetricsMonotone ==
    /\ call.op = "update_metrics" =>
          /\ exc = "none" /\ ret = <<>>
          /\ graph = [pre EXCEPT !.max_depth_explored = Max(@, call.depth)]
    /\ graph.max_depth_explored >= pre.max_depth_explored
    /\ GraphReturned =>
          /\ graph.max_depth_explored \in FetchDepths
          /\ \A d \in FetchDepths : d <= graph.max_depth_explored
          /\ 1 <= graph.max_depth_explored
          /\ graph.max_depth_explored <= req.max_depth

\* update_metrics was called with a depth below the counter
C22_Witness ==
    /\ pc = "store" /\ call.op = "update_metrics"
    /\ call.depth < pre.max_depth_explored
    /\ graph.max_depth_explored = pre.max_depth_explored

\* the titles that a path of at most k links leads to from the root, by the
\* lists the Link Source returned
RECURSIVE WithinLinks(_)
WithinLinks(k) ==
    IF k <= 0 THEN {req.root_title.s}
    ELSE LET near == WithinLinks(k - 1)
         IN  near \cup UNION {LinksOf(p) : p \in near \cap DOMAIN linkSrc}

\* C23: when no fetch fails, a returned crawl has expanded every page that
\* a path of fewer than max_depth links reaches from the root, whatever the
\* order of the lists, and for a page within max_depth - 2 links of the
\* root the links of its children are recorded.
C23_NeighbourhoodExpanded ==
    (GraphReturned /\ FetchFailed = {}) =>
        /\ WithinLinks(req.max_depth - 1) \subseteq Fetched
        /\ req.max_depth >= 2 =>
              \A p \in WithinLinks(req.max_depth - 2) \cap Fetched :
                  \A c \in LinksOf(p) :
                      /\ c \in Fetched
                      /\ \A l \in LinksOf(c) : HasEdge(c, l, "LINKS_TO")

\* The recursion tree, read off the calls of get_page_links: the call at
\* position k is followed by the calls of the frames below it, which are the
\* deeper ones up to the next call that is not deeper.
SubtreeEnd(k) ==
    CHOOSE j \in k..Len(calls) :
        /\ \A m \in (k + 1)..j : calls[m].depth > calls[k].depth
        /\ j < Len(calls) => calls[j + 1].depth <= calls[k].depth
Subtree(k) == {calls[j].page_title : j \in k..SubtreeEnd(k)}
ParentCall(k) ==
    CHOOSE j \in 1..(k - 1) :
        /\ calls[j].depth = calls[k].depth - 1
        /\ \A m \in (j + 1)..(k - 1) : calls[m].depth >= calls[k].depth

\* the positions of the edges recorded by the frame of call k and the frames
\* below it
Block(k) == {e \in 1..Len(graph.edges) : graph.edges[e].source \in Subtree(k)}
Contiguous(S) == \A a, b \in S : \A c \in a..b : c \in S
FirstOf(S) == CHOOSE a \in S : \A b \in S : a <= b
LastOf(S) == CHOOSE a \in S : \A b \in S : a >= b

\* the LINKS_TO edges of page p, in the order of graph.edges
LinkEdges(p) ==
    SelectSeq(graph.edges,
              LAMBDA e : e.source = p /\ e.rel_type = "LINKS_TO")

\* C24: in a returned crawl graph the LINKS_TO edges of an expanded page
\* are in the order of its link list, and the edges recorded while a link
\* was expanded, by its frame and the frames below, form one block that
\* starts right after the edge to that link, hence before the page's edge
\* to the next link.
C24_DepthFirstEdgeOrder ==
    GraphReturned =>
        /\ \A p \in FetchedOk :
              [i \in 1..Len(LinkEdges(p)) |-> LinkEdges(p)[i].target]
                  = linkSrc[p].links
        /\ \A k \in 2..Len(calls) :
              Block(k) # {} =>
                  /\ Contiguous(Block(k))
                  /\ FirstOf(Block(k)) > 1
                  /\ graph.edges[FirstOf(Block(k)) - 1]
                        = WikiEdge(calls[ParentCall(k)].page_title,
                                   calls[k].page_title, "LINKS_TO", EmptyDict)

\* a returned graph in which the first link of a page was expanded two
\* levels deep before the page's edge to its second link was recorded
C24_Witness ==
    /\ GraphReturned
    /\ \E k \in 2..Len(calls) :
          /\ SubtreeEnd(k) > k
          /\ Cardinality(Block(k)) >= 2
          /\ LastOf(Block(k)) < Len(graph.edges)
          /\ graph.edges[LastOf(Block(k)) + 1].source
                = calls[ParentCall(k)].page_title

ErrorNodes == {t \in DOMAIN graph.nodes : graph.nodes[t].is_error}

\* C26: error_count is the number of nodes whose is_error is true, and in a
\* graph returned by map_page_graph with include_errors it is the number of
\* pages whose fetch failed.
C26_ErrorCount ==
    /\ graph.error_count = Cardinality(ErrorNodes)
    /\ (GraphReturned /\ req.include_errors) =>
          graph.error_count = Cardinality(FetchFailed)

\* the titles that at most k LINKS_TO edges of the graph lead to from the
\* root
RECURSIVE ReachedBy(_)
ReachedBy(k) ==
    IF k <= 0 THEN {graph.root_title.s}
    ELSE LET near == ReachedBy(k - 1)
         IN  near \cup {e.target : e \in {x \in Edges : x.source \in near
                                           /\ x.rel_type = "LINKS_TO"}}

\* C27: in a returned crawl graph every node but the root has an incoming
\* edge and every node that is not an error node is within max_depth
\* LINKS_TO edges of the root; during a crawl the title of every frame,
\* from its entry on, and every fetched title is a node, and no GraphManager
\* call of the crawl raises NodeError.
C27_CrawlGraphConnected ==
    /\ GraphReturned =>
          /\ \A t \in DOMAIN graph.nodes \ {graph.root_title.s} :
                \E e \in Edges : e.target = t
          /\ \A t \in DOMAIN graph.nodes \ ErrorNodes :
                t \in ReachedBy(req.max_depth)
    /\ pc \in {"crawl", "done"} =>
          /\ \A k \in 1..Len(stack) :
                stack[k].current_title \in DOMAIN graph.nodes
          /\ Fetched \subseteq DOMAIN graph.nodes
          /\ exc # "NodeError"

\* a graph returned with an error node and a page that no fewer than
\* max_depth LINKS_TO edges lead to
C27_Witness ==
    /\ GraphReturned /\ req.max_depth >= 2
    /\ ErrorNodes # {}
    /\ \E t \in DOMAIN graph.nodes \ ErrorNodes :
          t \notin ReachedBy(req.max_depth - 1)

\* C28: add_link(graph, S, T) with S a valid title that has no node and T
\* another valid title that has none raises NodeError and adds no edge, but
\* leaves T as a new node, not an error node, with total_nodes incremented;
\* add_error_node(graph, S) with S a valid title that has no node, and no
\* node "[ERROR] S" either, raises NodeError and adds no edge, but leaves
\* "[ERROR] S" as a new error node with total_nodes and error_count
\* incremented.
C28_CompositesNotAtomic ==
    /\ (/\ call.op = "add_link"
        /\ ~InvalidTitle(call.source_title) /\ ~InvalidTitle(call.target_title)
        /\ call.source_title # call.target_title
        /\ call.source_title.s \notin DOMAIN pre.nodes
        /\ call.target_title.s \notin DOMAIN pre.nodes)
       => LET T == call.target_title.s
          IN  /\ exc = "NodeError"
              /\ graph.edges = pre.edges
              /\ DOMAIN graph.nodes = DOMAIN pre.nodes \cup {T}
              /\ ~graph.nodes[T].is_error
              /\ graph.total_nodes = pre.total_nodes + 1
              /\ graph.error_count = pre.error_count
    /\ (/\ call.op = "add_error_node"
        /\ ~InvalidTitle(call.source_title)
        /\ call.source_title.s \notin DOMAIN pre.nodes
        /\ ErrorTitle(call.source_title).s \notin DOMAIN pre.nodes)
       => LET E == ErrorTitle(call.source_title).s
          IN  /\ exc = "NodeError"
              /\ graph.edges = pre.edges
              /\ DOMAIN graph.nodes = DOMAIN pre.nodes \cup {E}
              /\ graph.nodes[E].is_error
              /\ graph.total_nodes = pre.total_nodes + 1
              /\ graph.error_count = pre.error_count + 1

\* a failed add_link left its target behind, and after it a failed
\* add_error_node left its error node behind
C28_Witness ==
    /\ call.op = "add_error_node" /\ exc = "NodeError"
    /\ call.source_title.s \notin DOMAIN graph.nodes
    /\ graph.error_count = pre.error_count + 1
    /\ graph.total_nodes = 3 /\ graph.edges = <<>>
    /\ "Y" \in DOMAIN pre.nodes

\* g1 == g2 for two WikiGraph objects: the dataclasses compare field by
\* field, the nodes by title, is_error and metadata
SameGraph(g1, g2) ==
    /\ DOMAIN g1.nodes = DOMAIN g2.nodes
    /\ \A t \in DOMAIN g1.nodes :
          /\ g1.nodes[t].title = g2.nodes[t].title
          /\ g1.nodes[t].is_error = g2.nodes[t].is_error
          /\ g1.nodes[t].metadata = g2.nodes[t].metadata
    /\ g1.edges = g2.edges
    /\ g1.root_title = g2.root_title
    /\ g1.total_nodes = g2.total_nodes
    /\ g1.error_count = g2.error_count
    /\ g1.max_depth_explored = g2.max_depth_explored

\* C21: a second map_page_graph call with the same arguments and the same
\* Link Source answers builds a new WikiGraph object, other than the one the
\* first call returned, starts from the root node alone and an empty
\* visited set, makes the same Link Source calls and ends as the first call
\* did, with an equal graph when it returns one.
C21_CallsIndependent ==
    earlier # <<>> =>
        LET e == earlier[1]
        IN  /\ (call.op = "create_graph" /\ exc = "none") =>
                  /\ heap.graphs = e.id + 1
                  /\ visited = {}
                  /\ DOMAIN graph.nodes = {req.root_title.s}
                  /\ graph.edges = <<>>
                  /\ graph.total_nodes = 1 /\ graph.error_count = 0
                  /\ graph.max_depth_explored = 0
            /\ pc = "done" =>
                  /\ result = e.result
                  /\ SameGraph(graph, e.graph)
                  /\ visited = e.visited
                  /\ Len(calls) = 2 * e.ncalls
                  /\ SubSeq(calls, e.ncalls + 1, Len(calls))
                        = SubSeq(calls, 1, e.ncalls)
                  /\ result.kind = "returned" => heap.graphs = e.id + 1

\* a second call has returned a graph with an error node, after fetching
\* two pages or more
C21_Witness ==
    /\ earlier # <<>> /\ GraphReturned
    /\ earlier[1].ncalls >= 2 /\ Len(calls) = 2 * earlier[1].ncalls
    /\ ErrorNodes # {}
    /\ Len(graph.edges) >= 3

TreeReturned == tpc = "done" /\ tresult.kind = "returned"
TreeFetchFailed == {tcalls[i].page_title : i \in
                        {j \in 1..Len(tcalls) : ~linkSrc[tcalls[j].page_title].ok}}
TreeDepths == {tcalls[i].depth : i \in 1..Len(tcalls)}

\* C25: in the PageTree that map_page_links returns, total_nodes is the
\* number of nodes of the tree, error_count the number of pages whose fetch
\* failed, and max_depth_reached the deepest level explored.
C25_TreeMetrics ==
    TreeReturned =>
        LET t == tresult.value[1]
        IN  /\ t.total_nodes = Cardinality(DOMAIN tree)
            /\ t.error_count = Cardinality(TreeFetchFailed)
            /\ \A d \in TreeDepths : d <= t.max_depth_reached
            /\ t.max_depth_reached \in TreeDepths

\* C29: for a root that map_page_graph accepts, max_depth >= 1 and lists
\* of non-empty titles, map_page_links makes the Link Source calls that
\* map_page_graph made, title by title in the same order, and ends with
\* the same visited set, whichever pages fail.
C29_SameFetches ==
    TreeReturned =>
        /\ [i \in 1..Len(tcalls) |-> tcalls[i].page_title]
              = [i \in 1..Len(calls) |-> calls[i].page_title]
        /\ tvisited = visited

\* both crawls are over, with three fetches or more, one of them failed,
\* and a page that two fetched pages link to
C29_Witness ==
    /\ TreeReturned /\ GraphReturned
    /\ Len(tcalls) >= 3
    /\ TreeFetchFailed # {}
    /\ \E t \in Fetched : Cardinality(LinkSources(t) \cap FetchedOk) >= 2

====
